---------------------------- MODULE Spec2Model ----------------------------
(***************************************************************************)
(* Model of daemon/create.go: Daemon.create with the layer-chain           *)
(* composition (compose), the restore of the original chain descriptor     *)
(* (restore) and the chain reader (getParentIds).                          *)
(*                                                                         *)
(* A Go string is modelled as a sequence of tokens (a token stands for a   *)
(* run of characters without any separator; "_", ",", "/" and "\n" are     *)
(* tokens of their own), so that strings.Split, strings.Replace,           *)
(* strings.Join and path.Join are computed, not assumed.  A text file is   *)
(* the sequence of its lines (each line a string, <<>> a blank line); a    *)
(* cache-id file is its raw content (one string).                          *)
(***************************************************************************)
EXTENDS Integers, Sequences, FiniteSets, TLC

(* Number of create requests served (one process per request). *)
MaxRequests == 2

Procs == 1..MaxRequests

-----------------------------------------------------------------------------
(* Strings *)

Str(t) == <<t>>

EmptyStr == <<>>

(* strings.Split(s, sep) for a one-token separator. *)
RECURSIVE Split(_, _)
Split(s, sep) ==
    IF \E i \in 1..Len(s) : s[i] = sep
    THEN LET i == CHOOSE k \in 1..Len(s) :
                     /\ s[k] = sep
                     /\ \A j \in 1..(k - 1) : s[j] # sep
         IN  <<SubSeq(s, 1, i - 1)>> \o Split(SubSeq(s, i + 1, Len(s)), sep)
    ELSE <<s>>

(* strings.Replace(s, old, "", -1) for a one-token old. *)
RemoveAll(s, old) == SelectSeq(s, LAMBDA t : t # old)

(* path.Join(dir, elem...): empty elements are ignored. *)
RECURSIVE PathJoin(_, _)
PathJoin(dir, elems) ==
    IF elems = <<>> THEN dir
    ELSE IF Head(elems) = EmptyStr THEN PathJoin(dir, Tail(elems))
    ELSE PathJoin(dir \o <<"/">> \o Head(elems), Tail(elems))

(* strings.Join([]string{layersP, "-backup"}, "") *)
BackupPath(layersP) == layersP \o <<"-backup">>

ManifestDir == <<"imagedb">>

LayerdbDir == <<"layerdb">>

LayersDir == <<"layers">>

Occurrences(chain, id) == {k \in 1..Len(chain) : chain[k] = id}

Min(S) == CHOOSE k \in S : \A j \in S : k <= j

(* Go map lookup: the zero value "" for a missing key. *)
MapGet(m, k) == IF k \in DOMAIN m THEN m[k] ELSE EmptyStr

MapPut(m, k, v) == [x \in DOMAIN m \cup {k} |-> IF x = k THEN v ELSE m[x]]

EmptyMap == [x \in {} |-> EmptyStr]

-----------------------------------------------------------------------------
(* The files the daemon reads and never writes: the function manifests and *)
(* the cache-id files of the layerdb.                                      *)

Rec(name, digest) == <<name, ",", digest>>

(* name,digest records, a blank line among them *)
ManifestFull ==
    << Rec("f1", "shaA"), EmptyStr, Rec("f2", "shaB"), Rec("chainID", "shaT") >>

ManifestBad ==
    << Rec("f1", "shaA"), Str("f2"), Rec("chainID", "shaT") >>

ManifestNoTop ==
    << Rec("f1", "shaA"), Rec("f2", "shaB") >>

ManifestContents == {ManifestFull, ManifestBad, ManifestNoTop}

(* One manifest file per first function name; none for f3. *)
ManifestFiles(content) ==
    [path \in { PathJoin(ManifestDir, <<Str("manifest"), Str("f1")>>),
                PathJoin(ManifestDir, <<Str("manifest"), Str("f2")>>) }
        |-> content]

CachePath(digest) == PathJoin(LayerdbDir, <<digest, Str("cache-id")>>)

CacheAll ==
    (CachePath(Str("shaA")) :> <<"ca1", "\n">>)
    @@ (CachePath(Str("shaB")) :> <<"ca2">>)
    @@ (CachePath(Str("shaT")) :> <<"top", "\n">>)

Without(f, k) == [x \in DOMAIN f \ {k} |-> f[x]]

CacheFilesSet ==
    { CacheAll,
      Without(CacheAll, CachePath(Str("shaB"))),
      Without(CacheAll, CachePath(Str("shaT"))),
      [CacheAll EXCEPT ![CachePath(Str("shaT"))] = <<"\n">>] }

(* The chain descriptors a top layer may hold at rest. *)
Line(t) == Str(t)

Chains ==
    { << Line("ca1"), Line("base"), Line("p1"), Line("p2") >>,
      << Line("ca1"), Line("p1"), Line("ca1"), Line("p2") >>,
      << Line("base"), EmptyStr, Line("p1") >>,
      << Line("p1"), Line("ca2"), EmptyStr, Line("ca1"), Line("base") >> }

TopPath == PathJoin(LayersDir, <<Str("top")>>)

(* Config.Image values: "", base only, base with function tokens. *)
Images ==
    { EmptyStr,
      <<"base">>,
      <<"base", "_", "f1">>,
      <<"base", "_", "f1", "_", "f2">>,
      <<"base", "_", "f2", "_", "f1">>,
      <<"base", "_", "f3">>,
      <<"base", "_", "f1", "_", "f3">> }

-----------------------------------------------------------------------------
VARIABLES
    manifestFiles,  \* manifest path -> lines (read-only)
    cacheFiles,     \* cache-id path -> raw content (read-only)
    fs,             \* path under aufs/layers -> inode, for the paths that exist
    inodes,         \* inode -> lines of the file
    pc,             \* position of each request inside Daemon.create
    image,          \* params.Config.Image of each request
    composeS,       \* compose: resolved cache ids, the reserved top layer last
    ids,            \* compose: parent ids read from the chain descriptor
    layersP,        \* create/compose: path of the chain descriptor
    toWrite,        \* compose: lines the write loops still have to print
    replaceF,       \* compose: the file opened by os.Create
    step,           \* create: index of the next pipeline call
    container,      \* create: none, created, rwlayer (RWLayer set), registered, removed
    composeRes,     \* how compose ended: none, ok, panic, or the error printed
    restoreRes,     \* how restore ended: none, ok, err
    retErr,         \* how create ended: none, nil, err, panic
    orig,           \* descriptor and backup content when the request arrived
    overwritten,    \* history: a backup rename replaced an existing backup
    renamed         \* history: the request's own backup rename succeeded

envVars == <<manifestFiles, cacheFiles>>

fileVars == <<fs, inodes>>

localVars == <<composeS, ids, layersP, toWrite, replaceF, step>>

resultVars == <<container, composeRes, restoreRes, retErr>>

vars ==
    <<manifestFiles, cacheFiles, fs, inodes, pc, image, composeS, ids, layersP,
      toWrite, replaceF, step, container, composeRes, restoreRes, retErr, orig,
      overwritten, renamed>>

-----------------------------------------------------------------------------
(* File system *)

Exists(path) == path \in DOMAIN fs

(* Content at a path as an option: <<>> when there is no file. *)
ReadOpt(path) == IF Exists(path) THEN <<inodes[fs[path]]>> ELSE <<>>

(* Faulty variant: os.Link in place of os.Rename, old keeps its name. *)
RenamedKeepsOld(old, new) ==
    [x \in DOMAIN fs \cup {new} |-> IF x = new THEN fs[old] ELSE fs[x]]

(* os.Rename(old, new) when old exists: new names old's inode, whatever  *)
(* new named before is unlinked.                                          *)
Renamed(old, new) ==
    [x \in (DOMAIN fs \ {old}) \cup {new} |-> IF x = new THEN fs[old] ELSE fs[x]]

(* os.Remove(path) when path exists. *)
Removed(path) == Without(fs, path)

ClosedFile == [open |-> FALSE, ino |-> 0, off |-> 0]

(* The kernel frees an inode that no path names and no open file uses: *)
(* the content of the inodes under links and open files.               *)
Freed(links, files, contents) ==
    [n \in DOMAIN contents |->
        IF \/ \E x \in DOMAIN links : links[x] = n
           \/ \E q \in DOMAIN files : files[q].open /\ files[q].ino = n
        THEN contents[n] ELSE <<>>]

Hole == Str("NUL")

(* A write of one line at line offset off (the lines of a descriptor all *)
(* have the width of a cache id).                                        *)
WriteAt(content, off, line) ==
    IF off < Len(content)
    THEN [content EXCEPT ![off + 1] = line]
    ELSE content \o [k \in 1..(off - Len(content)) |-> Hole] \o <<line>>

-----------------------------------------------------------------------------
(* compose, lines 214-249: resolution of the request (reads only) *)

(* Lines 225-231: the manifest scanner loop. *)
RECURSIVE ScanManifest(_, _)
ScanManifest(lines, functionM) ==
    IF lines = <<>> THEN [panic |-> FALSE, functionM |-> functionM]
    ELSE LET t == Head(lines)
         IN  IF t # EmptyStr
             THEN LET m == Split(t, ",")
                  IN  IF Len(m) < 2
                      THEN [panic |-> TRUE, functionM |-> functionM]
                      ELSE ScanManifest(Tail(lines), MapPut(functionM, m[1], m[2]))
             ELSE ScanManifest(Tail(lines), functionM)

(* Lines 237-248: one cache-id file per name, "\n" removed. *)
RECURSIVE ReadCacheIds(_, _, _)
ReadCacheIds(paras, functionM, acc) ==
    IF paras = <<>> THEN [err |-> FALSE, composeS |-> acc]
    ELSE LET layerdbP == CachePath(MapGet(functionM, Head(paras)))
         IN  IF layerdbP \notin DOMAIN cacheFiles
             THEN [err |-> TRUE, composeS |-> acc]
             ELSE ReadCacheIds(Tail(paras), functionM,
                               Append(acc, RemoveAll(cacheFiles[layerdbP], "\n")))

Resolve(paras) ==
    IF paras = <<>> THEN [outcome |-> "panic", composeS |-> <<>>]
    ELSE LET manifestP == PathJoin(ManifestDir, <<Str("manifest"), paras[1]>>)
         IN  IF manifestP \notin DOMAIN manifestFiles
             THEN [outcome |-> "open manifest file error", composeS |-> <<>>]
             ELSE LET scan == ScanManifest(manifestFiles[manifestP], EmptyMap)
                  IN  IF scan.panic
                      THEN [outcome |-> "panic", composeS |-> <<>>]
                      ELSE LET r == ReadCacheIds(Append(paras, Str("chainID")),
                                                 scan.functionM, <<>>)
                           IN  IF r.err
                               THEN [outcome |-> "open layerdb file error",
                                     composeS |-> <<>>]
                               ELSE [outcome |-> "ok", composeS |-> r.composeS]

(* getParentIds, lines 317-324: the non-blank lines. *)
NonBlank(lines) == SelectSeq(lines, LAMBDA t : t # EmptyStr)

(* Faulty variant: the function layers printed in request order. *)
RECURSIVE FunctionLoopForward(_, _)
FunctionLoopForward(cs, i) ==
    IF i < Len(cs)
    THEN <<cs[i]>> \o FunctionLoopForward(cs, i + 1)
    ELSE <<>>

(* Lines 271-277: composeS[length-1-i] for i = 1 .. length-1. *)
RECURSIVE FunctionLoop(_, _)
FunctionLoop(cs, i) ==
    IF i < Len(cs)
    THEN <<cs[Len(cs) - i]>> \o FunctionLoop(cs, i + 1)
    ELSE <<>>

(* Lines 284-289: the inner loop, i counted from 0 as in the source. *)
RECURSIVE InnerLoop(_, _)
InnerLoop(parents, i) ==
    IF i < Len(parents)
    THEN <<parents[i + 1]>> \o InnerLoop(parents, i + 1)
    ELSE <<>>

(* Faulty variant: the inner loop has an index of its own, so the scan *)
(* goes on after a match and prints the rest again at every later one. *)
RECURSIVE ParentLoopEveryMatch(_, _, _)
ParentLoopEveryMatch(parents, first, i) ==
    IF i < Len(parents)
    THEN IF parents[i + 1] # first
         THEN ParentLoopEveryMatch(parents, first, i + 1)
         ELSE InnerLoop(parents, i + 1) \o ParentLoopEveryMatch(parents, first, i + 1)
    ELSE <<>>

(* Faulty variant: the inner loop starts at the match, not after it. *)
ParentLoopKeepsMatch(parents, first, i) ==
    IF Occurrences(parents, first) = {} THEN <<>>
    ELSE InnerLoop(parents, Min(Occurrences(parents, first)) - 1)

(* Lines 279-291: the scan for composeS[0]; the inner loop leaves i at *)
(* length, which ends the outer loop.                                  *)
RECURSIVE ParentLoop(_, _, _)
ParentLoop(parents, first, i) ==
    IF i < Len(parents)
    THEN IF parents[i + 1] # first
         THEN ParentLoop(parents, first, i + 1)
         ELSE InnerLoop(parents, i + 1)
    ELSE <<>>

(* Faulty variant: the first loop starts at i = 0, the top layer is printed. *)
ComposedLinesWithSelf(cs, parents) ==
    FunctionLoop(cs, 0) \o ParentLoop(parents, cs[1], 0)

(* The arguments of the successive fmt.Fprintln(replaceF, ...) calls. *)
ComposedLines(cs, parents) ==
    FunctionLoop(cs, 1) \o ParentLoop(parents, cs[1], 0)

-----------------------------------------------------------------------------
(* Daemon.create's calls between compose and restore, in source order:     *)
(* GetImage 78-83, mergeAndVerifyConfig 85-87, newContainer 89-98,         *)
(* setSecurityOptions and setRWLayer 100-107, Register 109-111,            *)
(* GetRootUIDGID to updateContainerNetworkSettings 112-142 (under          *)
(* setHostConfig), ToDiskLocking 144-148.                                  *)
PipelineSteps ==
    << "GetImage", "mergeAndVerifyConfig", "newContainer", "setRWLayer",
       "Register", "setHostConfig", "ToDiskLocking" >>

StepIndex(name) == CHOOSE k \in 1..Len(PipelineSteps) : PipelineSteps[k] = name

-----------------------------------------------------------------------------
Init ==
    /\ \E content \in ManifestContents : manifestFiles = ManifestFiles(content)
    /\ cacheFiles \in CacheFilesSet
    /\ \/ /\ fs = (TopPath :> 0)
          /\ \E d \in Chains : inodes = [n \in 0..MaxRequests |-> IF n = 0 THEN d ELSE <<>>]
       \/ /\ fs = [x \in {} |-> 0]
          /\ inodes = [n \in 0..MaxRequests |-> <<>>]
    /\ pc = [p \in Procs |-> "idle"]
    /\ image = [p \in Procs |-> EmptyStr]
    /\ composeS = [p \in Procs |-> <<>>]
    /\ ids = [p \in Procs |-> <<>>]
    /\ layersP = [p \in Procs |-> EmptyStr]
    /\ toWrite = [p \in Procs |-> <<>>]
    /\ replaceF = [p \in Procs |-> ClosedFile]
    /\ step = [p \in Procs |-> 0]
    /\ container = [p \in Procs |-> "none"]
    /\ composeRes = [p \in Procs |-> "none"]
    /\ restoreRes = [p \in Procs |-> "none"]
    /\ retErr = [p \in Procs |-> "none"]
    /\ orig = [p \in Procs |-> [desc |-> <<>>, bak |-> <<>>]]
    /\ overwritten = FALSE
    /\ renamed = [p \in Procs |-> FALSE]

-----------------------------------------------------------------------------
(* Daemon.create returns: the deferred ContainerRm (lines 92-98) runs when  *)
(* a container was made and retErr is not nil; rmOk is whether it removed   *)
(* the container.  The locals of the call are gone.                         *)
Return(p, err, rmOk) ==
    /\ pc' = [pc EXCEPT ![p] = "done"]
    /\ retErr' = [retErr EXCEPT ![p] = err]
    /\ container' = [container EXCEPT ![p] =
                        IF err = "err" /\ @ \in {"created", "rwlayer", "registered"} /\ rmOk
                        THEN "removed" ELSE @]
    /\ composeS' = [composeS EXCEPT ![p] = <<>>]
    /\ ids' = [ids EXCEPT ![p] = <<>>]
    /\ layersP' = [layersP EXCEPT ![p] = EmptyStr]
    /\ toWrite' = [toWrite EXCEPT ![p] = <<>>]
    /\ replaceF' = [replaceF EXCEPT ![p] = ClosedFile]
    /\ step' = [step EXCEPT ![p] = 0]

(* Faulty variant: the error of compose is dropped at line 73 and create *)
(* goes on to GetImage with an empty path.                               *)
ComposeErrorIgnored(p, msg) ==
    /\ composeRes' = [composeRes EXCEPT ![p] = msg]
    /\ pc' = [pc EXCEPT ![p] = "pipeline"]
    /\ step' = [step EXCEPT ![p] = StepIndex("GetImage")]
    /\ composeS' = [composeS EXCEPT ![p] = <<>>]
    /\ ids' = [ids EXCEPT ![p] = <<>>]
    /\ layersP' = [layersP EXCEPT ![p] = EmptyStr]
    /\ toWrite' = [toWrite EXCEPT ![p] = <<>>]
    /\ replaceF' = [replaceF EXCEPT ![p] = ClosedFile]
    /\ UNCHANGED <<container, retErr, restoreRes>>

(* compose returns ("", err) and create returns (nil, err), lines 73-76; *)
(* msg is what compose prints for the error.                            *)
ComposeError(p, msg) ==
    /\ composeRes' = [composeRes EXCEPT ![p] = msg]
    /\ Return(p, "err", FALSE)
    /\ UNCHANGED <<restoreRes>>

(* Lines 59-72: a request arrives; requests are numbered in arrival order. *)
Start(p, img) ==
    /\ pc[p] = "idle"
    /\ \A q \in Procs : q < p => pc[q] # "idle"
    /\ image' = [image EXCEPT ![p] = img]
    /\ IF img # EmptyStr
       THEN /\ pc' = [pc EXCEPT ![p] = "compose"]
            /\ step' = step
       ELSE /\ pc' = [pc EXCEPT ![p] = "pipeline"]
            /\ step' = [step EXCEPT ![p] = StepIndex("mergeAndVerifyConfig")]
    /\ orig' = [orig EXCEPT ![p] = [desc |-> ReadOpt(TopPath),
                                    bak |-> ReadOpt(BackupPath(TopPath))]]
    /\ UNCHANGED <<envVars, fileVars, composeS, ids, layersP, toWrite, replaceF,
                   resultVars, overwritten, renamed>>

(* Lines 70-72 and 214-252: tmp[1:] is resolved to cache ids. *)
ComposeResolve(p) ==
    /\ pc[p] = "compose"
    /\ LET tmp == Split(image[p], "_")
           r == Resolve(Tail(tmp))
       IN  \/ /\ r.outcome = "ok"
              /\ composeS' = [composeS EXCEPT ![p] = r.composeS]
              /\ layersP' = [layersP EXCEPT ![p] =
                                PathJoin(LayersDir, <<r.composeS[Len(r.composeS)]>>)]
              /\ pc' = [pc EXCEPT ![p] = "getParentIds"]
              /\ UNCHANGED <<ids, toWrite, replaceF, step, resultVars>>
           \/ /\ r.outcome \notin {"ok", "panic"}
              /\ ComposeError(p, r.outcome)
           \/ /\ r.outcome = "panic"
              /\ composeRes' = [composeRes EXCEPT ![p] = "panic"]
              /\ Return(p, "panic", FALSE)
              /\ UNCHANGED <<restoreRes>>
    /\ UNCHANGED <<envVars, fileVars, image, orig, overwritten, renamed>>

(* Faulty variant: lines 253 and 258 swapped, the descriptor is renamed *)
(* to the backup before it is read.                                    *)
GetParentIdsAfterBackup(p) ==
    /\ pc[p] = "getParentIds"
    /\ IF Exists(layersP[p])
       THEN /\ fs' = Renamed(layersP[p], BackupPath(layersP[p]))
            /\ inodes' = Freed(fs', replaceF, inodes)
       ELSE UNCHANGED fileVars
    /\ ComposeError(p, "get parent ids error")
    /\ UNCHANGED <<envVars, image, orig, overwritten, renamed>>

(* Lines 253-257 and 310-326: the chain descriptor is read. *)
GetParentIds(p) ==
    /\ pc[p] = "getParentIds"
    /\ IF Exists(layersP[p])
       THEN /\ ids' = [ids EXCEPT ![p] = NonBlank(inodes[fs[layersP[p]]])]
            /\ pc' = [pc EXCEPT ![p] = "backup"]
            /\ UNCHANGED <<composeS, layersP, toWrite, replaceF, step, resultVars>>
       ELSE ComposeError(p, "get parent ids error")
    /\ UNCHANGED <<envVars, fileVars, image, orig, overwritten, renamed>>

(* Lines 258-262: os.Rename(layersP, layersP + "-backup"). *)
BackupRename(p) ==
    /\ pc[p] = "backup"
    /\ IF Exists(layersP[p])
       THEN /\ fs' = Renamed(layersP[p], BackupPath(layersP[p]))
            /\ inodes' = Freed(fs', replaceF, inodes)
            /\ overwritten' = (overwritten \/ Exists(BackupPath(layersP[p])))
            /\ renamed' = [renamed EXCEPT ![p] = TRUE]
            /\ pc' = [pc EXCEPT ![p] = "create"]
            /\ UNCHANGED <<localVars, resultVars>>
       ELSE /\ UNCHANGED <<fileVars, overwritten, renamed>>
            /\ ComposeError(p, "backup error")
    /\ UNCHANGED <<envVars, image, orig>>

(* Lines 263-268: os.Create(layersP) makes the file or truncates it. *)
CreateFile(p) ==
    /\ pc[p] = "create"
    /\ LET ino == IF Exists(layersP[p]) THEN fs[layersP[p]] ELSE p
       IN  /\ fs' = [x \in DOMAIN fs \cup {layersP[p]} |->
                        IF x = layersP[p] THEN ino ELSE fs[x]]
           /\ inodes' = [inodes EXCEPT ![ino] = <<>>]
           /\ replaceF' = [replaceF EXCEPT ![p] =
                              [open |-> TRUE, ino |-> ino, off |-> 0]]
    /\ toWrite' = [toWrite EXCEPT ![p] = ComposedLines(composeS[p], ids[p])]
    /\ pc' = [pc EXCEPT ![p] = "write"]
    /\ UNCHANGED <<envVars, image, composeS, ids, layersP, step, resultVars, orig, overwritten, renamed>>

(* Lines 273 and 285: one fmt.Fprintln(replaceF, ...). *)
WriteLine(p) ==
    /\ pc[p] = "write"
    /\ toWrite[p] # <<>>
    /\ inodes' = [inodes EXCEPT ![replaceF[p].ino] =
                     WriteAt(@, replaceF[p].off, Head(toWrite[p]))]
    /\ replaceF' = [replaceF EXCEPT ![p].off = @ + 1]
    /\ toWrite' = [toWrite EXCEPT ![p] = Tail(@)]
    /\ UNCHANGED <<envVars, fs, pc, image, composeS, ids, layersP, step,
                   resultVars, orig, overwritten, renamed>>

(* Faulty variant: compose returns layersP while entries are still to be *)
(* written; they are dropped.                                            *)
ComposeReturnEarly(p) ==
    /\ pc[p] = "write"
    /\ composeRes' = [composeRes EXCEPT ![p] = "ok"]
    /\ replaceF' = [replaceF EXCEPT ![p] = ClosedFile]
    /\ toWrite' = [toWrite EXCEPT ![p] = <<>>]
    /\ inodes' = Freed(fs, replaceF', inodes)
    /\ pc' = [pc EXCEPT ![p] = "pipeline"]
    /\ step' = [step EXCEPT ![p] = StepIndex("GetImage")]
    /\ UNCHANGED <<envVars, fs, image, composeS, ids, layersP,
                   container, restoreRes, retErr, orig, overwritten, renamed>>

(* Lines 293 and 268: compose returns layersP; replaceF is closed. *)
ComposeReturn(p) ==
    /\ pc[p] = "write"
    /\ toWrite[p] = <<>>
    /\ composeRes' = [composeRes EXCEPT ![p] = "ok"]
    /\ replaceF' = [replaceF EXCEPT ![p] = ClosedFile]
    /\ inodes' = Freed(fs, replaceF', inodes)
    /\ pc' = [pc EXCEPT ![p] = "pipeline"]
    /\ step' = [step EXCEPT ![p] = StepIndex("GetImage")]
    /\ UNCHANGED <<envVars, fs, image, composeS, ids, layersP, toWrite,
                   container, restoreRes, retErr, orig, overwritten, renamed>>

(* Lines 78-148: one call of the pipeline succeeds. *)
PipelineOk(p) ==
    /\ pc[p] = "pipeline"
    /\ container' = [container EXCEPT ![p] =
                        IF PipelineSteps[step[p]] = "newContainer" THEN "created"
                        ELSE IF PipelineSteps[step[p]] = "setRWLayer" THEN "rwlayer"
                        ELSE IF PipelineSteps[step[p]] = "Register" THEN "registered"
                        ELSE @]
    /\ IF step[p] < Len(PipelineSteps)
       THEN /\ step' = [step EXCEPT ![p] = @ + 1]
            /\ pc' = pc
       ELSE /\ step' = [step EXCEPT ![p] = 0]
            /\ pc' = [pc EXCEPT ![p] = "restoreRemove"]
    /\ UNCHANGED <<envVars, fileVars, image, composeS, ids, layersP, toWrite,
                   replaceF, composeRes, restoreRes, retErr, orig, overwritten, renamed>>

(* Lines 78-148: every call of the pipeline succeeds (one step, for the *)
(* runs where only the file operations of the requests interleave).    *)
PipelineRun(p) ==
    /\ pc[p] = "pipeline"
    /\ container' = [container EXCEPT ![p] = "registered"]
    /\ step' = [step EXCEPT ![p] = 0]
    /\ pc' = [pc EXCEPT ![p] = "restoreRemove"]
    /\ UNCHANGED <<envVars, fileVars, image, composeS, ids, layersP, toWrite,
                   replaceF, composeRes, restoreRes, retErr, orig, overwritten, renamed>>

(* Lines 78-147: one call of the pipeline fails and create returns its error. *)
PipelineFail(p) ==
    /\ pc[p] = "pipeline"
    /\ \E rmOk \in BOOLEAN : Return(p, "err", rmOk)
    /\ UNCHANGED <<envVars, fileVars, image, composeRes, restoreRes, orig, overwritten, renamed>>

(* Faulty variant: restore removes the backup, not the descriptor. *)
RestoreRemoveBackup(p) ==
    /\ pc[p] = "restoreRemove"
    /\ IF Exists(BackupPath(layersP[p]))
       THEN /\ fs' = Removed(BackupPath(layersP[p]))
            /\ inodes' = Freed(fs', replaceF, inodes)
            /\ pc' = [pc EXCEPT ![p] = "restoreRename"]
            /\ UNCHANGED <<localVars, resultVars>>
       ELSE /\ UNCHANGED fileVars
            /\ restoreRes' = [restoreRes EXCEPT ![p] = "err"]
            /\ \E rmOk \in BOOLEAN : Return(p, "err", rmOk)
            /\ UNCHANGED <<composeRes>>
    /\ UNCHANGED <<envVars, image, orig, overwritten, renamed>>

(* Lines 150 and 298-301: os.Remove(layersP). *)
RestoreRemove(p) ==
    /\ pc[p] = "restoreRemove"
    /\ IF Exists(layersP[p])
       THEN /\ fs' = Removed(layersP[p])
            /\ inodes' = Freed(fs', replaceF, inodes)
            /\ pc' = [pc EXCEPT ![p] = "restoreRename"]
            /\ UNCHANGED <<localVars, resultVars>>
       ELSE /\ UNCHANGED fileVars
            /\ restoreRes' = [restoreRes EXCEPT ![p] = "err"]
            /\ \E rmOk \in BOOLEAN : Return(p, "err", rmOk)
            /\ UNCHANGED <<composeRes>>
    /\ UNCHANGED <<envVars, image, orig, overwritten, renamed>>

(* Faulty variant: restore removes the descriptor and skips the rename. *)
RestoreRenameSkipped(p) ==
    /\ pc[p] = "restoreRename"
    /\ restoreRes' = [restoreRes EXCEPT ![p] = "ok"]
    /\ Return(p, "nil", FALSE)
    /\ UNCHANGED <<envVars, fileVars, image, composeRes, orig, overwritten, renamed>>

(* Lines 302-307 and 150-155: os.Rename(layersP + "-backup", layersP). *)
RestoreRename(p) ==
    /\ pc[p] = "restoreRename"
    /\ IF Exists(BackupPath(layersP[p]))
       THEN /\ fs' = Renamed(BackupPath(layersP[p]), layersP[p])
            /\ inodes' = Freed(fs', replaceF, inodes)
            /\ restoreRes' = [restoreRes EXCEPT ![p] = "ok"]
            /\ Return(p, "nil", FALSE)
       ELSE /\ UNCHANGED fileVars
            /\ restoreRes' = [restoreRes EXCEPT ![p] = "err"]
            /\ \E rmOk \in BOOLEAN : Return(p, "err", rmOk)
    /\ UNCHANGED <<envVars, image, composeRes, orig, overwritten, renamed>>

(* An I/O error of the scanner, os.Rename, os.Create or fmt.Fprintln inside *)
(* compose (lines 254, 259, 264, 273, 285): compose returns the error.      *)
ComposeFault(p) ==
    /\ pc[p] \in {"getParentIds", "backup", "create", "write"}
    /\ pc[p] = "write" => toWrite[p] # <<>>
    /\ ComposeError(p, CASE pc[p] = "getParentIds" -> "get parent ids error"
                         [] pc[p] = "backup" -> "backup error"
                         [] OTHER -> "replace error")
    /\ inodes' = Freed(fs, replaceF', inodes)
    /\ UNCHANGED <<envVars, fs, image, orig, overwritten, renamed>>

(* An I/O error of os.Remove or os.Rename inside restore (lines 298, 303). *)
RestoreFault(p) ==
    /\ pc[p] \in {"restoreRemove", "restoreRename"}
    /\ restoreRes' = [restoreRes EXCEPT ![p] = "err"]
    /\ \E rmOk \in BOOLEAN : Return(p, "err", rmOk)
    /\ UNCHANGED <<envVars, fileVars, image, composeRes, orig, overwritten, renamed>>

(* The daemon process dies while request p is inside Daemon.create: no   *)
(* deferred function and no later statement runs, the open descriptor is *)
(* closed by the kernel, the files stay as they are.                     *)
Crash(p) ==
    /\ pc[p] \notin {"idle", "done"}
    /\ Return(p, "crashed", FALSE)
    /\ inodes' = Freed(fs, replaceF', inodes)
    /\ UNCHANGED <<envVars, fs, image, composeRes, restoreRes, orig, overwritten, renamed>>

(* No request is inside Daemon.create. *)
Quiet == \A q \in Procs : pc[q] \in {"idle", "done"}

(* Requests served one at a time, with I/O errors. *)
Next ==
    \E p \in Procs :
        \/ \E img \in Images : Quiet /\ Start(p, img)
        \/ ComposeResolve(p)
        \/ GetParentIds(p)
        \/ BackupRename(p)
        \/ CreateFile(p)
        \/ WriteLine(p)
        \/ ComposeReturn(p)
        \/ PipelineOk(p)
        \/ PipelineFail(p)
        \/ RestoreRemove(p)
        \/ RestoreRename(p)
        \/ ComposeFault(p)
        \/ RestoreFault(p)

Spec == Init /\ [][Next]_vars

-----------------------------------------------------------------------------
(* Requests served concurrently, as the API server does (one goroutine per *)
(* request), on one resting descriptor.                                    *)
InitConc ==
    /\ Init
    /\ manifestFiles = ManifestFiles(ManifestFull)
    /\ cacheFiles = CacheAll
    /\ Exists(TopPath)
    /\ inodes[0] = << Line("ca1"), Line("base"), Line("p1"), Line("p2") >>

(* The requests that race: both resolve and compose. *)
ConcImages ==
    { <<"base", "_", "f1">>, <<"base", "_", "f1", "_", "f2">> }

(* The first two requests race; a later one arrives when none is inside. *)
Racing == {1, 2}

NextConc ==
    \E p \in Procs :
        \/ \E img \in ConcImages : (p \in Racing \/ Quiet) /\ Start(p, img)
        \/ ComposeResolve(p)
        \/ GetParentIds(p)
        \/ BackupRename(p)
        \/ CreateFile(p)
        \/ WriteLine(p)
        \/ ComposeReturn(p)
        \/ PipelineRun(p)
        \/ RestoreRemove(p)
        \/ RestoreRename(p)

SpecConc == InitConc /\ [][NextConc]_vars

-----------------------------------------------------------------------------
(* Requests served one at a time by a daemon that may die at any statement *)
(* and be started again; the manifest and the cache-id files are complete. *)
InitCrash ==
    /\ Init
    /\ manifestFiles = ManifestFiles(ManifestFull)
    /\ cacheFiles = CacheAll

NextCrash ==
    \E p \in Procs :
        \/ \E img \in ConcImages : Quiet /\ Start(p, img)
        \/ ComposeResolve(p)
        \/ GetParentIds(p)
        \/ BackupRename(p)
        \/ CreateFile(p)
        \/ WriteLine(p)
        \/ ComposeReturn(p)
        \/ PipelineRun(p)
        \/ RestoreRemove(p)
        \/ RestoreRename(p)
        \/ ComposeFault(p)
        \/ RestoreFault(p)
        \/ Crash(p)

SpecCrash == InitCrash /\ [][NextCrash]_vars

-----------------------------------------------------------------------------
(* Vocabulary of the properties *)

Descriptor == ReadOpt(TopPath)

Backup == ReadOpt(BackupPath(TopPath))

Returned(p) == pc[p] = "done"

(* No later request has arrived: the files are as request p left them. *)
Latest(p) == \A q \in Procs : q > p => pc[q] = "idle"

(* compose has returned the descriptor path and restore has not begun. *)
Swapped(p) == pc[p] = "pipeline" /\ composeRes[p] = "ok"

(* The function names of the request. *)
Names(p) == Tail(Split(image[p], "_"))

(* The cache id recorded for a function name: the digest of its manifest *)
(* record, then the content of that digest's cache-id file without "\n". *)
DigestOf(p, name) ==
    LET lines == manifestFiles[PathJoin(ManifestDir, <<Str("manifest"), Names(p)[1]>>)]
        k == CHOOSE k \in 1..Len(lines) :
                 Len(lines[k]) = 3 /\ lines[k][1] = name[1] /\ lines[k][2] = ","
    IN  Str(lines[k][3])

CacheIdOf(p, name) ==
    RemoveAll(cacheFiles[CachePath(DigestOf(p, name))], "\n")

(* The entries of the chain descriptor the request found. *)
OrigChain(p) == NonBlank(orig[p].desc[1])

(* The entries strictly after the first occurrence of id; none without one. *)
AfterFirst(chain, id) ==
    IF Occurrences(chain, id) = {} THEN <<>>
    ELSE SubSeq(chain, Min(Occurrences(chain, id)) + 1, Len(chain))

(* The composed descriptor after its first n lines. *)
Suffix(p) == SubSeq(Descriptor[1], Len(Names(p)) + 1, Len(Descriptor[1]))

ExampleChain == << Line("ca1"), Line("base"), Line("p1"), Line("p2") >>

-----------------------------------------------------------------------------
(* C1: round trip.  When a request's compose and then its restore have    *)
(* both succeeded, with no other request in between, the descriptor path  *)
(* holds the content it held when the request arrived, line for line      *)
(* (blank lines included), and there is no file at the backup path.       *)
C1_RoundTrip ==
    \A p \in Procs :
        (Returned(p) /\ Latest(p) /\ composeRes[p] = "ok" /\ restoreRes[p] = "ok")
            => (Descriptor = orig[p].desc /\ Backup = <<>>)

(* A round trip over a descriptor that has a blank line. *)
C1_Witness ==
    \E p \in Procs :
        /\ Returned(p) /\ Latest(p)
        /\ composeRes[p] = "ok" /\ restoreRes[p] = "ok"
        /\ Descriptor # <<>>
        /\ \E k \in 1..Len(Descriptor[1]) : Descriptor[1][k] = EmptyStr

(* C2: unconditional restore.  Whenever create has returned for a request *)
(* whose compose succeeded, restore has been run, whatever the pipeline   *)
(* did.                                                                   *)
C2_RestoreAlwaysRun ==
    \A p \in Procs :
        (Returned(p) /\ composeRes[p] = "ok") => restoreRes[p] # "none"

(* C3: two compositions racing on one descriptor path without a lock can  *)
(* lose the original content: the corrupted end state below is reached,   *)
(* and whenever no request is inside create and the descriptor path does  *)
(* not hold the original content, a backup rename has replaced an         *)
(* existing backup.                                                       *)
C3_LossOnlyByOverwrite ==
    (Quiet /\ Descriptor # <<ExampleChain>>) => overwritten

(* Both racing requests composed and returned, and the original content   *)
(* is at neither path.                                                    *)
C3_Witness ==
    /\ \A p \in Racing : Returned(p) /\ composeRes[p] = "ok"
    /\ \A p \in Procs \ Racing : pc[p] = "idle"
    /\ overwritten
    /\ Descriptor # <<ExampleChain>>
    /\ Backup # <<ExampleChain>>

(* Between its backup rename and the end of its restore. *)
InWindow(p) ==
    \/ pc[p] \in {"create", "write"}
    \/ pc[p] \in {"pipeline", "restoreRemove", "restoreRename"} /\ composeRes[p] = "ok"

(* C4: mutual exclusion per descriptor path.  At most one request is      *)
(* between its backup rename and the end of its restore.                  *)
C4_MutualExclusion ==
    \A p, q \in Procs : (InWindow(p) /\ InWindow(q)) => p = q

ResolutionErrors ==
    {"open manifest file error", "open layerdb file error", "get parent ids error"}

(* C5: failure before mutation.  When compose has failed in a resolution  *)
(* step (manifest, cache-id file, chain descriptor), the descriptor path  *)
(* and the backup path hold what they held when the request arrived.      *)
C5_FailureBeforeMutation ==
    \A p \in Procs :
        (Returned(p) /\ Latest(p) /\ composeRes[p] \in ResolutionErrors)
            => (Descriptor = orig[p].desc /\ Backup = orig[p].bak)

(* A cache-id file is missing and the descriptor is there, untouched. *)
C5_Witness ==
    \E p \in Procs :
        /\ Returned(p) /\ Latest(p)
        /\ composeRes[p] = "open layerdb file error"
        /\ orig[p].desc # <<>>
        /\ Descriptor = orig[p].desc

(* The value compose scans the chain for: the cache id of the first       *)
(* function name (composeS[0]).                                           *)
SplitValue(p) == CacheIdOf(p, Names(p)[1])

(* C6: missing split point.  compose never succeeds when the value it     *)
(* scans for does not occur in the original chain.                        *)
C6_MissingSplitFails ==
    \A p \in Procs :
        (composeRes[p] = "ok" /\ pc[p] = "pipeline")
            => Occurrences(OrigChain(p), SplitValue(p)) # {}

(* C7: order property.  After compose, the first n lines of the           *)
(* descriptor are the cache ids of the n function names in reverse        *)
(* request order, none of them the cache id of the reserved top layer.    *)
C7_OrderProperty ==
    \A p \in Procs :
        Swapped(p) =>
            LET names == Names(p)
                n == Len(names)
                d == Descriptor[1]
            IN  /\ Len(d) >= n
                /\ \A i \in 1..n :
                      /\ d[i] = CacheIdOf(p, names[n + 1 - i])
                      /\ d[i] # CacheIdOf(p, Str("chainID"))

(* Two function names, written last first. *)
C7_Witness ==
    \E p \in Procs :
        /\ Swapped(p)
        /\ Names(p) = <<Str("f1"), Str("f2")>>
        /\ SubSeq(Descriptor[1], 1, 2) = <<Line("ca2"), Line("ca1")>>

(* The identifier of the base image: the base token, as in the example. *)
BaseCacheId(p) == Split(image[p], "_")[1]

C9_FirstMatch ==
    \A p \in Procs :
        (Swapped(p) /\ Cardinality(Occurrences(OrigChain(p), SplitValue(p))) >= 2)
            => LET chain == OrigChain(p)
                   k == Min(Occurrences(chain, SplitValue(p)))
               IN  /\ Len(Suffix(p)) = Len(chain) - k
                   /\ \A j \in 1..Len(Suffix(p)) : Suffix(p)[j] = chain[k + j]

(* ca1 twice in the chain: the second one is copied with the rest. *)
C9_Witness ==
    \E p \in Procs :
        /\ Swapped(p)
        /\ OrigChain(p) = <<Line("ca1"), Line("p1"), Line("ca1"), Line("p2")>>
        /\ Suffix(p) = <<Line("p1"), Line("ca1"), Line("p2")>>

(* The setting of the worked example. *)
ExampleSetting(p) ==
    /\ image[p] = <<"base", "_", "f1", "_", "f2">>
    /\ orig[p].desc = <<ExampleChain>>
    /\ DigestOf(p, Str("f1")) = Str("shaA")
    /\ DigestOf(p, Str("f2")) = Str("shaB")
    /\ CacheIdOf(p, Str("f1")) = Str("ca1")
    /\ CacheIdOf(p, Str("f2")) = Str("ca2")

(* C10: worked example.  Request [f1, f2] on chain [ca1, base, p1, p2]    *)
(* composes the descriptor [ca2, ca1, base, p1, p2].                      *)
C10_WorkedExample ==
    \A p \in Procs :
        (Swapped(p) /\ ExampleSetting(p))
            => Descriptor =
                 << << Line("ca2"), Line("ca1"), Line("base"), Line("p1"), Line("p2") >> >>

(* The example has been composed, [p1, p2] at its end. *)
C10_Witness ==
    \E p \in Procs :
        /\ Swapped(p)
        /\ ExampleSetting(p)
        /\ Len(Descriptor[1]) = 5
        /\ SubSeq(Descriptor[1], 4, 5) = <<Line("p1"), Line("p2")>>

-----------------------------------------------------------------------------
(* C11: backup conflict.  A request that arrives while a file is at the   *)
(* backup path never replaces that file: as long as no later request has  *)
(* arrived, the backup path holds what it held at the request's arrival.  *)
C11_BackupNeverReplaced ==
    \A p \in Procs :
        (pc[p] # "idle" /\ Latest(p) /\ orig[p].bak # <<>>)
            => Backup = orig[p].bak

(* C12: write-failure self-heal.  When compose has failed at os.Create or *)
(* at a write, after its backup rename, the descriptor path holds the     *)
(* content the request found and there is no file at the backup path.     *)
C12_SelfHeal ==
    \A p \in Procs :
        (Returned(p) /\ Latest(p) /\ composeRes[p] = "replace error")
            => (Descriptor = orig[p].desc /\ Backup = <<>>)

(* C13: a restore error keeps the container.  When create has returned   *)
(* for a request whose compose and whole pipeline succeeded and whose     *)
(* restore failed, the registered container still exists.                 *)
C13_ContainerKept ==
    \A p \in Procs :
        (Returned(p) /\ composeRes[p] = "ok" /\ restoreRes[p] = "err")
            => container[p] = "registered"

(* C14: a compose error aborts creation.  Whenever compose has returned   *)
(* an error for a request, create has returned that error and the request *)
(* has no container record: newContainer, setRWLayer and Register, the    *)
(* calls that make and advance the record, never ran for it.              *)
C14_NoContainerOnComposeError ==
    \A p \in Procs :
        composeRes[p] \notin {"none", "ok", "panic"}
            => (Returned(p) /\ retErr[p] = "err" /\ container[p] = "none")

(* compose has failed after its backup rename, and before it. *)
C14_Witness ==
    /\ \E p \in Procs :
           /\ composeRes[p] = "replace error"
           /\ renamed[p]
           /\ container[p] = "none"
    /\ \E p \in Procs :
           /\ composeRes[p] = "open layerdb file error"
           /\ container[p] = "none"

(* C15: crash recovery.  When the daemon died while a request was between *)
(* its backup rename and its restore rename, the next request served      *)
(* finds at the descriptor path the content the dead request had found.   *)
C15_RecoveredAfterCrash ==
    \A q \in Procs : \A p \in Procs :
        (/\ p = q + 1
         /\ pc[p] # "idle"
         /\ retErr[q] = "crashed"
         /\ renamed[q]
         /\ restoreRes[q] # "ok")
            => orig[p].desc = orig[q].desc

(* C16: manifest parsing.  A request that names at least one function     *)
(* never ends in a run-time panic of compose: a manifest line without ',' *)
(* makes compose return an error value.                                   *)
C16_MalformedLineIsError ==
    \A p \in Procs :
        (image[p] # EmptyStr /\ Names(p) # <<>>)
            => (composeRes[p] # "panic" /\ retErr[p] # "panic")

(* The request's backup rename has succeeded and its restore rename has *)
(* not: the request is inside the window, or it died or failed there.   *)
EverInWindow(p) == renamed[p] /\ restoreRes[p] # "ok"

(* The composed content the request is to write, from what it was given: *)
(* the cache ids of its functions, last function first, then the chain   *)
(* it found after the first function's cache id.                         *)
Expected(p) ==
    LET n == Len(Names(p))
    IN  [i \in 1..n |-> CacheIdOf(p, Names(p)[n + 1 - i])]
            \o AfterFirst(OrigChain(p), SplitValue(p))

IsPrefix(s, t) == Len(s) <= Len(t) /\ s = SubSeq(t, 1, Len(s))

(* C17: the window.  For the one request being served, from its backup   *)
(* rename until its restore rename succeeds (a failed restore step and   *)
(* the death of the daemon included), the backup path holds the content  *)
(* the request found and the descriptor path is absent or holds a prefix *)
(* of the composed content.                                              *)
C17_WindowInvariant ==
    \A p \in Procs :
        (Latest(p) /\ EverInWindow(p))
            => /\ Backup = orig[p].desc
               /\ Descriptor = <<>> \/ IsPrefix(Descriptor[1], Expected(p))

(* The daemon died with part of the composed content written. *)
C17_Witness ==
    \E p \in Procs :
        /\ Latest(p) /\ EverInWindow(p) /\ Returned(p)
        /\ retErr[p] = "crashed"
        /\ Descriptor # <<>>
        /\ Len(Descriptor[1]) > 0
        /\ Len(Descriptor[1]) < Len(Expected(p))

(* The request is about to call setRWLayer or Register. *)
AtLayerStep(p) ==
    /\ pc[p] = "pipeline"
    /\ step[p] \in {StepIndex("setRWLayer"), StepIndex("Register")}

(* C18: ordering of the window.  A request with a non-empty image calls   *)
(* setRWLayer and Register only after its compose has returned the path   *)
(* and before its restore has begun: at both calls the descriptor path    *)
(* holds the whole composed content and the backup path the original.     *)
C18_LayerStepsInsideWindow ==
    \A p \in Procs :
        (image[p] # EmptyStr /\ AtLayerStep(p))
            => /\ Swapped(p)
               /\ restoreRes[p] = "none"
               /\ Descriptor = <<Expected(p)>>
               /\ Backup = orig[p].desc

(* Register is about to run on a container whose RWLayer was made from a *)
(* descriptor composed of two functions.                                 *)
C18_Witness ==
    \E p \in Procs :
        /\ image[p] # EmptyStr
        /\ pc[p] = "pipeline"
        /\ step[p] = StepIndex("Register")
        /\ container[p] = "rwlayer"
        /\ Len(Names(p)) = 2
        /\ Descriptor = <<Expected(p)>>

(* C19: restore only after a swap.  A request with an empty image, for  *)
(* which compose is not called, never enters restore and is not failed  *)
(* by it.                                                               *)
C19_NoRestoreOnEmptyImage ==
    \A p \in Procs :
        (pc[p] # "idle" /\ image[p] = EmptyStr)
            => /\ pc[p] \notin {"restoreRemove", "restoreRename"}
               /\ restoreRes[p] = "none"

(* C20: empty function list.  A request whose image has the base token   *)
(* only never ends in a run-time panic of compose: compose returns a     *)
(* path or an error value.                                               *)
C20_EmptyFunctionListReturns ==
    \A p \in Procs :
        (image[p] # EmptyStr /\ Names(p) = <<>> /\ Returned(p))
            => (composeRes[p] \notin {"none", "panic"} /\ retErr[p] # "panic")

=============================================================================
